---- MODULE Spec2Model ----
(***************************************************************************)
(* fast-cf-pages-upload-action: one run of the action (run() in            *)
(* src/index.ts) and the asset synchronisation it calls (upload() and      *)
(* findUploadableFiles() in upload.ts): scan and hash the directory, ask   *)
(* the remote store which hashes are missing, pack the missing files into  *)
(* buckets, upload the buckets concurrently, register the hashes and       *)
(* create the deployment.                                                  *)
(***************************************************************************)
EXTENDS Integers, Sequences, FiniteSets, TLC

(***************************************************************************)
(* Bounds of the model.                                                    *)
(***************************************************************************)
\* regular files in the directory of a whole run (Spec)
MaxFiles == 3
\* regular files in the directory when only the packer is explored (SpecPack)
MaxPackFiles == 5
\* runs of the action against the same directory and remote store
MaxRuns == 2
\* The item cap of a bucket.  upload.ts:97 writes 5000; the model scales it
\* down so that a bucket can be filled, and keeps the comparison of the code.
MAX_BUCKET_ITEMS == 2

(***************************************************************************)
(* Program constants.                                                      *)
(***************************************************************************)
MiB == 1024 * 1024
\* upload.ts:97, the byte cap of a bucket
MAX_BUCKET_BYTES == 50 * 1024 * 1024
\* upload.ts:109, Array(3): the buckets packing starts with
InitialBuckets == 3
\* Mutant of ignoredFiles: a name left out of the set.
ignoredFilesWithoutRoutes == {"_worker.js", "_redirects", "_headers"}

\* upload.ts:21-26
ignoredFiles == {"_worker.js", "_redirects", "_headers", "_routes.json"}

\* The sizes stat() reports in the model: the smallest file, two that fit
\* together, two that do not, one that fills a bucket, one above the cap.
Sizes == {1, 20 * MiB, 30 * MiB, 50 * MiB, 60 * 1000 * 1000}
\* The sizes of a whole run: fit together, do not fit together, above the cap.
RunSizes == {1, 30 * MiB, 60 * 1000 * 1000}

(***************************************************************************)
(* The directory.  A Dirent has the directory it is in (relative to the    *)
(* root, "" for the root), its name, its extension, whether it is a        *)
(* regular file and its bytes.  A file's size is what stat() reports; the  *)
(* model keeps only a short sample of the bytes, so the size is not their  *)
(* length, and equal bytes have equal sizes.                               *)
(***************************************************************************)
Dirent(parent, name, ext, isFile, bytes) ==
    [parent |-> parent, name |-> name, ext |-> ext, isFile |-> isFile, bytes |-> bytes]

Bytes1 == <<60, 104, 49>>
Bytes2 == <<118, 97>>
Bytes3 == <<137>>
Bytes4 == <<97, 123, 125, 10>>
Bytes5 == <<0, 0, 0, 0, 0, 0>>
Contents == {Bytes1, Bytes2, Bytes3, Bytes4, Bytes5}

\* The regular files a directory is drawn from; /copy/index.html and /data
\* have the bytes of /index.html, /data without an extension.
RegularEntries ==
    << Dirent("", "index.html", "html", TRUE, Bytes1),
       Dirent("", "app.js", "js", TRUE, Bytes2),
       Dirent("/copy", "index.html", "html", TRUE, Bytes1),
       Dirent("/img", "logo.png", "png", TRUE, Bytes3),
       Dirent("", "style.css", "css", TRUE, Bytes4),
       Dirent("", "data", "", TRUE, Bytes1),
       Dirent("/img", "raw.bin", "bin", TRUE, Bytes5) >>

HeadersEntry == Dirent("", "_headers", "", TRUE, <<47, 42>>)
RedirectsEntry == Dirent("", "_redirects", "", TRUE, <<47, 32, 47>>)
SubDirEntry == Dirent("", "sub", "", FALSE, <<>>)
NestedWorkerEntry == Dirent("/sub", "_worker.js", "js", TRUE, Bytes2)
NestedRoutesEntry == Dirent("/sub", "_routes.json", "json", TRUE, <<123, 125>>)

\* What a directory holds besides its regular files: directories and files
\* with a reserved name, at the root and below it.
ExtraChoices ==
    { <<>>,
      <<HeadersEntry>>,
      <<RedirectsEntry, SubDirEntry, NestedWorkerEntry>>,
      <<HeadersEntry, SubDirEntry, NestedRoutesEntry, RedirectsEntry>> }

(***************************************************************************)
(* Hashing: hashData is base64(bytes) followed by the extension without    *)
(* its dot; the hash is blake3 of that string, which the model takes to be *)
(* free of collisions: the hash of a string is the string.                 *)
(***************************************************************************)
B64Chars ==
  << "A", "B", "C", "D", "E", "F", "G", "H", "I", "J", "K", "L", "M", "N", "O", "P",
     "Q", "R", "S", "T", "U", "V", "W", "X", "Y", "Z", "a", "b", "c", "d", "e", "f",
     "g", "h", "i", "j", "k", "l", "m", "n", "o", "p", "q", "r", "s", "t", "u", "v",
     "w", "x", "y", "z", "0", "1", "2", "3", "4", "5", "6", "7", "8", "9", "+", "/" >>

B64(n) == B64Chars[n + 1]

RECURSIVE base64(_)
base64(b) ==
    IF Len(b) = 0 THEN ""
    ELSE IF Len(b) = 1
         THEN B64(b[1] \div 4) \o B64((b[1] % 4) * 16) \o "=="
    ELSE IF Len(b) = 2
         THEN B64(b[1] \div 4) \o B64((b[1] % 4) * 16 + b[2] \div 16)
              \o B64((b[2] % 16) * 4) \o "="
    ELSE B64(b[1] \div 4) \o B64((b[1] % 4) * 16 + b[2] \div 16)
         \o B64((b[2] % 16) * 4 + b[3] \div 64) \o B64(b[3] % 64)
         \o base64(SubSeq(b, 4, Len(b)))

\* Mutant of hashData: the extension left out of the hashed string.
hashDataWithoutExtension(bytes, ext) == base64(bytes)

hashData(bytes, ext) == base64(bytes) \o ext

blake3(data) == data

mimeLookup(ext) ==
    CASE ext = "html" -> "text/html"
      [] ext = "js" -> "application/javascript"
      [] ext = "png" -> "image/png"
      [] ext = "css" -> "text/css"
      [] ext = "json" -> "application/json"
      [] OTHER -> "application/octet-stream"

resolvedDir == "/work/dist"

\* upload.ts:36-53: the UploadableFile of a directory entry
UploadableFile(entry) ==
    [absolutePath |-> resolvedDir \o entry.parent \o "/" \o entry.name,
     size |-> entry.size,
     mime |-> mimeLookup(entry.ext),
     hash |-> blake3(hashData(entry.bytes, entry.ext)),
     publicUrl |-> entry.parent \o "/" \o entry.name]

RECURSIVE SelectSeqMap(_)
\* upload.ts:34 and 36: the entries that are regular files and whose name is
\* not reserved, each made an UploadableFile, in the order of the listing
SelectSeqMap(entries) ==
    IF entries = <<>> THEN <<>>
    ELSE LET e == Head(entries)
             rest == SelectSeqMap(Tail(entries))
         IN IF e.isFile /\ e.name \notin ignoredFiles
            THEN <<UploadableFile(e)>> \o rest
            ELSE rest

RECURSIVE SelectFiles(_)
\* Mutant of findUploadableFiles: the filter on ignoredFiles left out.
SelectFiles(entries) ==
    IF entries = <<>> THEN <<>>
    ELSE IF Head(entries).isFile
         THEN <<UploadableFile(Head(entries))>> \o SelectFiles(Tail(entries))
         ELSE SelectFiles(Tail(entries))

findUploadableFiles(entries) == SelectSeqMap(entries)

(***************************************************************************)
(* The state of a run.                                                     *)
(***************************************************************************)
VARIABLES
    dir,            \* the directory listing readdir returns, each entry with its size
    known,          \* the hashes the remote store reports as known
    run,            \* the number of this run
    pc,             \* where run() and upload() stand
    files,          \* upload.ts:83
    missingHashes,  \* upload.ts:87
    filesToUpload,  \* upload.ts:90
    uploadBuckets,  \* upload.ts:93, the accumulator of the reduce
    i,              \* upload.ts:93, the index of the reduce
    tasks,          \* upload.ts:111, the promise of each non-empty bucket
    log,            \* the requests this run has issued, in order
    prevLog,        \* the requests of the run before this one
    readFailed,     \* the stages in which a local read has failed
    failed,         \* the calls of setFailed, index.ts:121
    eventName,      \* context.eventName, index.ts:16
    tokenUser,      \* user.type of what is written with githubToken, index.ts:21
    comments,       \* the comments of the pull request, index.ts:102
    outputs         \* the outputs that are set, index.ts:78-80

github == <<eventName, tokenUser, comments, outputs>>

vars == <<dir, known, run, pc, files, missingHashes, filesToUpload,
          uploadBuckets, i, tasks, log, prevLog, readFailed, failed, github>>

\* A request as the log keeps it: bucket is 0 unless op is "upload".
Request(op, status, bucket, body) ==
    [op |-> op, status |-> status, bucket |-> bucket, body |-> body]

\* Mutant of Threw: cfApiRequest without the check of response.ok.
ThrewNever(ok) == FALSE

\* upload.ts:66: cfApiRequest throws when the response is not ok
Threw(ok) == ~ok

Status(ok) == IF ok THEN "ok" ELSE "failed"

\* A request is issued and answered: it is logged, and either the caller goes
\* on to next or the error reaches the catch of run() (index.ts:120-122).
cfApiRequest(op, ok, body, next) ==
    /\ log' = Append(log, Request(op, Status(ok), 0, body))
    /\ pc' = IF Threw(ok) THEN "failed" ELSE next
    /\ failed' = IF Threw(ok) THEN failed + 1 ELSE failed

Hashes(fs) == [k \in 1..Len(fs) |-> fs[k].hash]

Range(s) == {s[k] : k \in 1..Len(s)}

(***************************************************************************)
(* upload.ts:90, the filter and the sort                                   *)
(***************************************************************************)
\* Mutant of FilterMissing: the filter on missingHashes left out.
FilterNothing(fs, missing) == fs

RECURSIVE FilterMissing(_, _)
FilterMissing(fs, missing) ==
    IF fs = <<>> THEN <<>>
    ELSE IF Head(fs).hash \in missing
         THEN <<Head(fs)>> \o FilterMissing(Tail(fs), missing)
         ELSE FilterMissing(Tail(fs), missing)

\* sort((a, b) => b.size - a.size) is stable: f goes behind every file that
\* is at least as large
InsertBySize(sorted, f) ==
    LET k == Cardinality({j \in 1..Len(sorted) : sorted[j].size >= f.size})
    IN SubSeq(sorted, 1, k) \o <<f>> \o SubSeq(sorted, k + 1, Len(sorted))

RECURSIVE SortBySizeDesc(_)
SortBySizeDesc(fs) ==
    IF fs = <<>> THEN <<>>
    ELSE InsertBySize(SortBySizeDesc(SubSeq(fs, 1, Len(fs) - 1)), fs[Len(fs)])

(***************************************************************************)
(* upload.ts:93-109, the callback of the reduce                            *)
(***************************************************************************)
EmptyBucket == [files |-> <<>>, size |-> 0]

\* upload.ts:109
InitialUploadBuckets == [b \in 1..InitialBuckets |-> EmptyBucket]

\* Mutant of Accepts: the size of the file left out of the byte test.
AcceptsBucketSizeOnly(bucket, file) ==
    /\ bucket.size <= MAX_BUCKET_BYTES
    /\ Len(bucket.files) <= MAX_BUCKET_ITEMS

\* upload.ts:97
Accepts(bucket, file) ==
    /\ bucket.size + file.size <= MAX_BUCKET_BYTES
    /\ Len(bucket.files) <= MAX_BUCKET_ITEMS

Undefined == -1

\* upload.ts:95-98: the first j in 0..length-1 for which the bucket at
\* (i + j) % length accepts the file, undefined when there is none
FindOffset(buckets, file, idx) ==
    LET len == Len(buckets)
        found == {j \in 0..(len - 1) : Accepts(buckets[((idx + j) % len) + 1], file)}
    IN IF found = {} THEN Undefined
       ELSE CHOOSE j \in found : \A j2 \in found : j <= j2

\* Mutant of Reducer: undefined taken for offset 0, so that no bucket is pushed.
ReducerWithoutPush(buckets, file, idx) ==
    LET found == FindOffset(buckets, file, idx)
        j == IF found = Undefined THEN 0 ELSE found
        b == ((j + idx) % Len(buckets)) + 1
    IN [buckets EXCEPT ![b] = [files |-> Append(@.files, file),
                               size |-> @.size + file.size]]

\* Mutant of Reducer: the new bucket is pushed before the file is in it and
\* the copy that takes the file is lost.
ReducerLosingFile(buckets, file, idx) ==
    LET j == FindOffset(buckets, file, idx)
        b == ((j + idx) % Len(buckets)) + 1
    IN IF j = Undefined
       THEN Append(buckets, EmptyBucket)
       ELSE [buckets EXCEPT ![b] = [files |-> Append(@.files, file),
                                    size |-> @.size + file.size]]

\* Mutant of Reducer: the new bucket is pushed when it is made and again when
\* it has taken the file.
ReducerPushingTwice(buckets, file, idx) ==
    LET j == FindOffset(buckets, file, idx)
        b == ((j + idx) % Len(buckets)) + 1
    IN IF j = Undefined
       THEN buckets \o <<EmptyBucket, [files |-> <<file>>, size |-> file.size]>>
       ELSE [buckets EXCEPT ![b] = [files |-> Append(@.files, file),
                                    size |-> @.size + file.size]]

\* upload.ts:95-108: undefined + i is NaN and buckets[NaN] is undefined, so a
\* new bucket is pushed; otherwise the bucket at (j + i) % length takes the file
Reducer(buckets, file, idx) ==
    LET j == FindOffset(buckets, file, idx)
        b == ((j + idx) % Len(buckets)) + 1
    IN IF j = Undefined
       THEN Append(buckets, [files |-> <<file>>, size |-> file.size])
       ELSE [buckets EXCEPT ![b] = [files |-> Append(@.files, file),
                                    size |-> @.size + file.size]]

\* Mutant of NonEmptyBuckets: the filter on files.length left out.
EveryBucket(buckets) == 1..Len(buckets)

\* upload.ts:111, the buckets that hold a file
NonEmptyBuckets(buckets) == {b \in 1..Len(buckets) : Len(buckets[b].files) > 0}

\* readFile(absolutePath): the bytes of the entry at that path
ReadFile(entries, absolutePath) ==
    LET k == CHOOSE k \in 1..Len(entries) :
                 resolvedDir \o entries[k].parent \o "/" \o entries[k].name = absolutePath
    IN entries[k].bytes

\* upload.ts:113-120
Payload(bucket, entries) ==
    [k \in 1..Len(bucket.files) |->
        [key |-> bucket.files[k].hash,
         value |-> base64(ReadFile(entries, bucket.files[k].absolutePath)),
         contentType |-> bucket.files[k].mime]]

\* upload.ts:131, Object.fromEntries: a later entry of a key replaces an earlier one
ObjectFromEntries(fs) ==
    [p \in {fs[k].publicUrl : k \in 1..Len(fs)} |->
        LET last == CHOOSE k \in 1..Len(fs) :
                        /\ fs[k].publicUrl = p
                        /\ \A k2 \in 1..Len(fs) : fs[k2].publicUrl = p => k2 <= k
        IN fs[last].hash]

\* upload.ts:137-145: readFile(join(directory, name)) succeeds
Readable(entries, name) ==
    \E k \in 1..Len(entries) :
        entries[k].parent = "" /\ entries[k].name = name /\ entries[k].isFile

\* Mutant of FormData: the second read copies the path of the first.
FormDataReadingRedirectsTwice(fs, entries) ==
    [manifest |-> ObjectFromEntries(fs),
     redirects |-> Readable(entries, "_redirects"),
     headers |-> Readable(entries, "_redirects")]

\* upload.ts:130-145
FormData(fs, entries) ==
    [manifest |-> ObjectFromEntries(fs),
     redirects |-> Readable(entries, "_redirects"),
     headers |-> Readable(entries, "_headers")]

\* check-missing of the remote store: the hashes asked about that it does not know
RemoteCheckMissing(hashes, kn) == {h \in Range(hashes) : h \notin kn}

\* Mutant of AllFulfilled: Promise.any in the place of Promise.all.
AnyFulfilled(ts) == DOMAIN ts = {} \/ \E b \in DOMAIN ts : ts[b] = "ok"

\* upload.ts:111 and 124, Promise.all: every promise is fulfilled
AllFulfilled(ts) == \A b \in DOMAIN ts : ts[b] = "ok"

(***************************************************************************)
(* The initial states: a directory of up to MaxFiles regular files, with   *)
(* or without directories and reserved files, and a remote store that      *)
(* knows some of the hashes.                                               *)
(***************************************************************************)
Stat(entry, size) == [size |-> size] @@ entry

Listing(n, extras, fsize) ==
    [k \in 1..n |-> Stat(RegularEntries[k], fsize[RegularEntries[k].bytes])]
    \o [k \in 1..Len(extras) |-> Stat(extras[k], 1)]

ContentsOf(n) == {RegularEntries[k].bytes : k \in 1..n}

NotStarted ==
    /\ files = <<>>
    /\ missingHashes = {}
    /\ filesToUpload = <<>>
    /\ uploadBuckets = <<>>
    /\ i = 0
    /\ tasks = <<>>
    /\ log = <<>>
    /\ readFailed = {}
    /\ failed = 0

\* the first run for a pull request without comments, with the token of the
\* workflow
FirstPullRequestRun ==
    /\ eventName = "pull_request"
    /\ tokenUser = "Bot"
    /\ comments = <<>>
    /\ outputs = {}

Init ==
    /\ \E n \in 0..MaxFiles, extras \in ExtraChoices :
         \E fsize \in [ContentsOf(n) -> RunSizes] :
            dir = Listing(n, extras, fsize)
    /\ known \in SUBSET Range(Hashes(findUploadableFiles(dir)))
    /\ run = 1
    /\ pc = "project"
    /\ prevLog = <<>>
    /\ NotStarted
    /\ FirstPullRequestRun

(***************************************************************************)
(* run(), index.ts:43-61                                                   *)
(***************************************************************************)
\* index.ts:44, upload.ts:75-79
GetProject ==
    /\ pc = "project"
    /\ \E ok \in BOOLEAN : cfApiRequest("project", ok, <<>>, "ghdeploy")
    /\ UNCHANGED github
    /\ UNCHANGED <<dir, known, run, files, missingHashes, filesToUpload,
                   uploadBuckets, i, tasks, prevLog, readFailed>>

\* Mutant of StepAfterGithubDeployment: upload() is not awaited.
StepWithoutUpload == "deployed"

\* index.ts:64: upload() is called and awaited
StepAfterGithubDeployment == "scan"

\* index.ts:50-61: a status other than 201 throws
CreateGithubDeployment ==
    /\ pc = "ghdeploy"
    /\ \E ok \in BOOLEAN :
         /\ log' = Append(log, Request("gh-deployment", Status(ok), 0, <<>>))
         /\ pc' = IF ok THEN StepAfterGithubDeployment ELSE "failed"
         /\ failed' = IF ok THEN failed ELSE failed + 1
    /\ UNCHANGED github
    /\ UNCHANGED <<dir, known, run, files, missingHashes, filesToUpload,
                   uploadBuckets, i, tasks, prevLog, readFailed>>

(***************************************************************************)
(* upload(), upload.ts:81-151                                              *)
(***************************************************************************)
\* upload.ts:83: the scan; a readdir, stat or readFile that fails rejects it
Scan ==
    /\ pc = "scan"
    /\ \E readOk \in BOOLEAN :
         IF readOk
         THEN /\ files' = findUploadableFiles(dir)
              /\ pc' = "token"
              /\ UNCHANGED <<readFailed, failed>>
         ELSE /\ readFailed' = readFailed \cup {"scan"}
              /\ pc' = "failed"
              /\ failed' = failed + 1
              /\ UNCHANGED files
    /\ UNCHANGED github
    /\ UNCHANGED <<dir, known, run, missingHashes, filesToUpload,
                   uploadBuckets, i, tasks, log, prevLog>>

\* upload.ts:85
GetUploadToken ==
    /\ pc = "token"
    /\ \E ok \in BOOLEAN : cfApiRequest("upload-token", ok, <<>>, "diff")
    /\ UNCHANGED github
    /\ UNCHANGED <<dir, known, run, files, missingHashes, filesToUpload,
                   uploadBuckets, i, tasks, prevLog, readFailed>>

\* upload.ts:87-90 and the initial value of the reduce, upload.ts:109
CheckMissing ==
    /\ pc = "diff"
    /\ \E ok \in BOOLEAN :
         /\ cfApiRequest("check-missing", ok, Hashes(files), "pack")
         /\ IF Threw(ok)
            THEN UNCHANGED <<missingHashes, filesToUpload, uploadBuckets>>
            ELSE /\ missingHashes' = RemoteCheckMissing(Hashes(files), known)
                 /\ filesToUpload' =
                        SortBySizeDesc(FilterMissing(files, missingHashes'))
                 /\ uploadBuckets' = InitialUploadBuckets
    /\ UNCHANGED github
    /\ UNCHANGED <<dir, known, run, files, i, tasks, prevLog, readFailed>>

\* upload.ts:93-108: one call of the reduce callback
PackStep ==
    /\ pc = "pack"
    /\ i < Len(filesToUpload)
    /\ uploadBuckets' = Reducer(uploadBuckets, filesToUpload[i + 1], i)
    /\ i' = i + 1
    /\ UNCHANGED github
    /\ UNCHANGED <<dir, known, run, pc, files, missingHashes, filesToUpload,
                   tasks, log, prevLog, readFailed, failed>>

\* upload.ts:111-113: one promise per non-empty bucket, each begins by
\* reading the files of its bucket
StartUploads ==
    /\ pc = "pack"
    /\ i = Len(filesToUpload)
    /\ tasks' = [b \in NonEmptyBuckets(uploadBuckets) |-> "reading"]
    /\ pc' = "upload"
    /\ UNCHANGED github
    /\ UNCHANGED <<dir, known, run, files, missingHashes, filesToUpload,
                   uploadBuckets, i, log, prevLog, readFailed, failed>>

\* Promise.all rejects on the first promise that rejects, upload.ts:111;
\* upload() rejects and run() calls setFailed, index.ts:120-122.  A promise
\* that rejects later changes nothing.
Reject(rejected) ==
    IF rejected /\ pc = "upload"
    THEN pc' = "failed" /\ failed' = failed + 1
    ELSE UNCHANGED <<pc, failed>>

\* upload.ts:113-123: the payload of bucket b is read and its request issued
ReadPayload(b) ==
    /\ b \in DOMAIN tasks
    /\ tasks[b] = "reading"
    /\ \E readOk \in BOOLEAN :
         IF readOk
         THEN /\ tasks' = [tasks EXCEPT ![b] = "inflight"]
              /\ log' = Append(log, Request("upload", "inflight", b,
                                            Payload(uploadBuckets[b], dir)))
              /\ UNCHANGED <<readFailed, pc, failed>>
         ELSE /\ tasks' = [tasks EXCEPT ![b] = "failed"]
              /\ readFailed' = readFailed \cup {"upload"}
              /\ Reject(TRUE)
              /\ UNCHANGED log
    /\ UNCHANGED github
    /\ UNCHANGED <<dir, known, run, files, missingHashes, filesToUpload,
                   uploadBuckets, i, prevLog>>

\* upload.ts:123: the store answers the upload of bucket b; what it has
\* stored it reports as known from then on
UploadResponse(b) ==
    /\ b \in DOMAIN tasks
    /\ tasks[b] = "inflight"
    /\ \E ok \in BOOLEAN :
         /\ log' = [k \in 1..Len(log) |->
                       IF log[k].op = "upload" /\ log[k].bucket = b
                       THEN [log[k] EXCEPT !.status = Status(ok)]
                       ELSE log[k]]
         /\ known' = IF ok THEN known \cup Range(Hashes(uploadBuckets[b].files))
                     ELSE known
         /\ tasks' = [tasks EXCEPT ![b] = IF Threw(ok) THEN "failed" ELSE "ok"]
         /\ Reject(Threw(ok))
    /\ UNCHANGED github
    /\ UNCHANGED <<dir, run, files, missingHashes, filesToUpload,
                   uploadBuckets, i, prevLog, readFailed>>

\* upload.ts:124-127: Promise.all is fulfilled and the hashes are registered
UpsertHashes ==
    /\ pc = "upload"
    /\ AllFulfilled(tasks)
    /\ \E ok \in BOOLEAN :
         /\ cfApiRequest("upsert-hashes", ok, Hashes(files), "submit")
         /\ known' = IF ok THEN known \cup Range(Hashes(files)) ELSE known
    /\ UNCHANGED github
    /\ UNCHANGED <<dir, run, files, missingHashes, filesToUpload,
                   uploadBuckets, i, tasks, prevLog, readFailed>>

\* upload.ts:130-150
CreateDeployment ==
    /\ pc = "submit"
    /\ \E ok \in BOOLEAN :
         cfApiRequest("deployments", ok, FormData(files, dir), "deployed")
    /\ UNCHANGED github
    /\ UNCHANGED <<dir, known, run, files, missingHashes, filesToUpload,
                   uploadBuckets, i, tasks, prevLog, readFailed>>

(***************************************************************************)
(* run(), index.ts:66-119                                                  *)
(***************************************************************************)
\* index.ts:27-29, as bytes: the head ref of the pull request, the target of
\* the release, the ref of the push
Ref(event) ==
    CASE event = "pull_request" -> <<102, 49>>
      [] event = "release" -> <<109, 97, 105, 110>>
      [] OTHER -> <<114, 101, 102, 115, 47, 109>>

\* index.ts:107 and 116
Sign(ref) == "Sign: " \o base64(ref)

\* index.ts:112-116: the comment the action writes; body is the sign in it
LinkComment(ref, userType) == [body |-> Sign(ref), user |-> userType]

\* Mutant of ExistingLinkComment: the find never matches.
NoLinkComment(listed, ref) == FALSE

\* index.ts:107: a listed comment of a bot whose body includes the sign
ExistingLinkComment(listed, ref) ==
    \E k \in 1..Len(listed) : listed[k].body = Sign(ref) /\ listed[k].user = "Bot"

\* index.ts:78-80
OutputNames == {"deploymentId", "deploymentUrl", "environment"}

\* index.ts:67-80: the status "success" is posted and the outputs are set
CreateDeploymentStatus ==
    /\ pc = "deployed"
    /\ \E ok \in BOOLEAN :
         /\ log' = Append(log, Request("gh-status", Status(ok), 0, "success"))
         /\ pc' = IF ok THEN "summary" ELSE "failed"
         /\ failed' = IF ok THEN failed ELSE failed + 1
         /\ outputs' = IF ok THEN OutputNames ELSE outputs
    /\ UNCHANGED <<dir, known, run, files, missingHashes, filesToUpload,
                   uploadBuckets, i, tasks, prevLog, readFailed,
                   eventName, tokenUser, comments>>

\* index.ts:85-100: the summary is written; a pull request goes on to its
\* comments
WriteSummary ==
    /\ pc = "summary"
    /\ \E ok \in BOOLEAN :
         /\ pc' = IF ~ok THEN "failed"
                  ELSE IF eventName = "pull_request" THEN "comments" ELSE "done"
         /\ failed' = IF ok THEN failed ELSE failed + 1
    /\ UNCHANGED github
    /\ UNCHANGED <<dir, known, run, files, missingHashes, filesToUpload,
                   uploadBuckets, i, tasks, log, prevLog, readFailed>>

\* index.ts:102-108: the comments are listed and searched
ListComments ==
    /\ pc = "comments"
    /\ \E ok \in BOOLEAN :
         /\ log' = Append(log, Request("list-comments", Status(ok), 0, comments))
         /\ pc' = IF ~ok THEN "failed"
                  ELSE IF ExistingLinkComment(comments, Ref(eventName))
                       THEN "done" ELSE "comment"
         /\ failed' = IF ok THEN failed ELSE failed + 1
    /\ UNCHANGED github
    /\ UNCHANGED <<dir, known, run, files, missingHashes, filesToUpload,
                   uploadBuckets, i, tasks, prevLog, readFailed>>

\* index.ts:109-117
CreateComment ==
    /\ pc = "comment"
    /\ \E ok \in BOOLEAN :
         /\ log' = Append(log, Request("create-comment", Status(ok), 0,
                                       LinkComment(Ref(eventName), tokenUser)))
         /\ pc' = IF ok THEN "done" ELSE "failed"
         /\ failed' = IF ok THEN failed ELSE failed + 1
         /\ comments' = IF ok
                        THEN Append(comments, LinkComment(Ref(eventName), tokenUser))
                        ELSE comments
    /\ UNCHANGED <<dir, known, run, files, missingHashes, filesToUpload,
                   uploadBuckets, i, tasks, prevLog, readFailed,
                   eventName, tokenUser, outputs>>

\* The action runs again, after a run that has ended without a failure, for
\* the same event, on the same directory and against the same store.
Rerun ==
    /\ pc = "done"
    /\ run < MaxRuns
    /\ run' = run + 1
    /\ prevLog' = log
    /\ pc' = "project"
    /\ files' = <<>>
    /\ missingHashes' = {}
    /\ filesToUpload' = <<>>
    /\ uploadBuckets' = <<>>
    /\ i' = 0
    /\ tasks' = <<>>
    /\ log' = <<>>
    /\ outputs' = {}
    /\ UNCHANGED <<dir, known, readFailed, failed, eventName, tokenUser, comments>>

Next ==
    \/ GetProject
    \/ CreateGithubDeployment
    \/ Scan
    \/ GetUploadToken
    \/ CheckMissing
    \/ PackStep
    \/ StartUploads
    \/ \E b \in DOMAIN tasks : ReadPayload(b)
    \/ \E b \in DOMAIN tasks : UploadResponse(b)
    \/ UpsertHashes
    \/ CreateDeployment
    \/ CreateDeploymentStatus
    \/ WriteSummary
    \/ ListComments
    \/ CreateComment
    \/ Rerun

Spec == Init /\ [][Next]_vars

(***************************************************************************)
(* The packer alone: the state upload() is in when check-missing has       *)
(* answered (upload.ts:90), for directories of up to MaxPackFiles files of *)
(* every size in Sizes that the store knows nothing of.                    *)
(***************************************************************************)
InitPack ==
    /\ \E n \in 0..MaxPackFiles :
         \E fsize \in [ContentsOf(n) -> Sizes] :
            dir = Listing(n, <<>>, fsize)
    /\ known = {}
    /\ run = 1
    /\ pc = "pack"
    /\ files = findUploadableFiles(dir)
    /\ missingHashes = RemoteCheckMissing(Hashes(files), known)
    /\ filesToUpload = SortBySizeDesc(FilterMissing(files, missingHashes))
    /\ uploadBuckets = InitialUploadBuckets
    /\ i = 0
    /\ tasks = <<>>
    /\ log = << Request("project", "ok", 0, <<>>),
                Request("gh-deployment", "ok", 0, <<>>),
                Request("upload-token", "ok", 0, <<>>),
                Request("check-missing", "ok", 0, Hashes(files)) >>
    /\ prevLog = <<>>
    /\ readFailed = {}
    /\ failed = 0
    /\ FirstPullRequestRun

NextPack ==
    \/ PackStep
    \/ StartUploads

SpecPack == InitPack /\ [][NextPack]_vars

(***************************************************************************)
(* The claims.                                                             *)
(***************************************************************************)
RECURSIVE SumSizes(_)
SumSizes(fs) == IF fs = <<>> THEN 0 ELSE Head(fs).size + SumSizes(Tail(fs))

FitsAlone(fs) == \A k \in 1..Len(fs) : fs[k].size <= MAX_BUCKET_BYTES

Packed == pc \notin {"project", "ghdeploy", "scan", "token", "diff", "pack"}

\* C1: when every file to upload is at most 50 MiB, then after every packing
\* step and at the end of packing the files of every bucket sum to at most
\* 50 MiB (and the running total of the bucket is that sum).
C1_ByteCap ==
    FitsAlone(filesToUpload) =>
        \A b \in 1..Len(uploadBuckets) :
            /\ uploadBuckets[b].size = SumSizes(uploadBuckets[b].files)
            /\ SumSizes(uploadBuckets[b].files) <= MAX_BUCKET_BYTES

\* Packing has ended, no file is above the cap, a fourth bucket was appended
\* and a bucket of two files is filled to the byte.
C1_Witness ==
    /\ pc = "upload"
    /\ FitsAlone(filesToUpload)
    /\ Len(uploadBuckets) > InitialBuckets
    /\ \E b \in 1..Len(uploadBuckets) :
          /\ Len(uploadBuckets[b].files) = 2
          /\ uploadBuckets[b].size = MAX_BUCKET_BYTES

\* C2: when every file to upload is at most 50 MiB, then after every packing
\* step and at the end of packing every bucket holds at most MAX_BUCKET_ITEMS
\* files.
C2_ItemCap ==
    FitsAlone(filesToUpload) =>
        \A b \in 1..Len(uploadBuckets) :
            Len(uploadBuckets[b].files) <= MAX_BUCKET_ITEMS

(***************************************************************************)
(* What the log says.                                                      *)
(***************************************************************************)
Requests(requests, op) == {k \in 1..Len(requests) : requests[k].op = op}

\* upload requests that carry the file f: pairs of a request and a place in
\* the bucket the request was built from
Transmissions(f) ==
    {kp \in Requests(log, "upload") \X (1..Len(filesToUpload)) :
        /\ kp[2] <= Len(uploadBuckets[log[kp[1]].bucket].files)
        /\ uploadBuckets[log[kp[1]].bucket].files[kp[2]] = f}

UploadsDone == pc \in {"submit", "deployed", "summary", "comments", "comment", "done"}

\* C3: every file an upload request carries is a scanned file whose hash
\* check-missing returned, the keys of the request are the hashes of those
\* files, no file is carried by two requests or twice by one, the hashes
\* check-missing returned are the hashes of scanned files the store did not
\* know, and once every upload has succeeded the files that were carried are
\* exactly the scanned files whose hash check-missing returned.
C3_UploadSetIsDiff ==
    /\ \A k \in Requests(log, "upload") :
          LET bucket == uploadBuckets[log[k].bucket]
          IN /\ Len(log[k].body) = Len(bucket.files)
             /\ \A p \in 1..Len(bucket.files) :
                   /\ bucket.files[p] \in Range(files)
                   /\ bucket.files[p].hash \in missingHashes
                   /\ log[k].body[p].key = bucket.files[p].hash
    /\ \A f \in Range(files) : Cardinality(Transmissions(f)) <= 1
    /\ pc = "pack" => missingHashes = Range(Hashes(files)) \ known
    /\ UploadsDone =>
          \A f \in Range(files) :
              Cardinality(Transmissions(f)) = IF f.hash \in missingHashes THEN 1 ELSE 0

\* A run has deployed three scanned files of which the store knew one: the
\* other two were carried, by two requests.
C3_Witness ==
    /\ pc = "deployed"
    /\ run = 1
    /\ Len(files) = 3
    /\ Cardinality({f \in Range(files) : f.hash \notin missingHashes}) = 1
    /\ Cardinality({f \in Range(files) : Transmissions(f) # {}}) = 2
    /\ Cardinality(Requests(log, "upload")) = 2

\* the hash of a directory entry, from its bytes and its extension
Fingerprint(entry) == blake3(hashData(entry.bytes, entry.ext))

Assets == {dir[k] : k \in {j \in 1..Len(dir) :
                              dir[j].isFile /\ dir[j].name \notin ignoredFiles}}

PublicPath(entry) == entry.parent \o "/" \o entry.name

\* C4: the manifest of the create-deployment request has one entry for the
\* public path of every regular file of the directory whose name is not
\* reserved, uploaded in this run or not, with the hash of that file as its
\* value, and no other entry.
C4_ManifestIsScannedSet ==
    \A k \in Requests(log, "deployments") :
        /\ DOMAIN log[k].body.manifest = {PublicPath(e) : e \in Assets}
        /\ \A e \in Assets : log[k].body.manifest[PublicPath(e)] = Fingerprint(e)

\* A deployment was requested for a directory with a reserved file, a file
\* that was uploaded and a file that was not.
C4_Witness ==
    /\ Requests(log, "deployments") # {}
    /\ run = 1
    /\ \E k \in 1..Len(dir) : dir[k].name \in ignoredFiles
    /\ \E f \in Range(files) : Transmissions(f) # {}
    /\ \E f \in Range(files) : Transmissions(f) = {}

\* the stage a request belongs to: 0 before upload() is called, 1 Scan,
\* 2 Diff, 3 Pack, 4 Upload, 5 Register, 6 Submit, 7 after upload() returned
StageOf(op) ==
    CASE op \in {"project", "gh-deployment"} -> 0
      [] op \in {"upload-token", "check-missing"} -> 2
      [] op = "upload" -> 4
      [] op = "upsert-hashes" -> 5
      [] op = "deployments" -> 6
      [] op \in {"gh-status", "list-comments", "create-comment"} -> 7

NoRequestAfterStage(n) == \A k \in 1..Len(log) : StageOf(log[k].op) <= n

\* C5: the requests are issued in the order of the stages, uploads only when
\* packing has ended; when a request has failed no request of a later stage
\* is in the log, and none when a local read has failed in the scan or in the
\* upload; no request is issued twice; and a run in which anything has failed
\* has called setFailed exactly once and stands at its end.
C5_AbortOnFirstFailure ==
    /\ \A a, b \in 1..Len(log) : a < b => StageOf(log[a].op) <= StageOf(log[b].op)
    /\ Requests(log, "upload") # {} => i = Len(filesToUpload) /\ Packed
    /\ \A a \in 1..Len(log) :
          log[a].status = "failed" => NoRequestAfterStage(StageOf(log[a].op))
    /\ "scan" \in readFailed => NoRequestAfterStage(1)
    /\ "upload" \in readFailed => NoRequestAfterStage(4)
    /\ \A a, b \in 1..Len(log) :
          log[a].op = log[b].op /\ log[a].bucket = log[b].bucket => a = b
    /\ failed <= 1
    /\ (pc = "failed") = (failed = 1)
    /\ (readFailed # {} \/ \E a \in 1..Len(log) : log[a].status = "failed")
          => failed = 1

\* The upload of one bucket has failed after the upload of another had
\* succeeded: the run has failed once, nothing was registered or submitted.
C5_Witness ==
    /\ pc = "failed"
    /\ failed = 1
    /\ \E a, b \in Requests(log, "upload") :
          log[a].status = "failed" /\ log[b].status = "ok"
    /\ Requests(log, "upsert-hashes") = {}

\* C6: when the upsert-hashes request is in the log, the upload request of
\* every bucket that holds a file stands before it and has succeeded, no
\* create-deployment request stands before it, and its body is the hash of
\* every scanned file; a create-deployment request has a successful
\* upsert-hashes request before it.
C6_RegisterAfterUploads ==
    /\ \A r \in Requests(log, "upsert-hashes") :
          /\ \A b \in NonEmptyBuckets(uploadBuckets) :
                \E u \in Requests(log, "upload") :
                    u < r /\ log[u].bucket = b /\ log[u].status = "ok"
          /\ \A d \in Requests(log, "deployments") : r < d
          /\ log[r].body = Hashes(files)
          /\ Range(log[r].body) = {Fingerprint(e) : e \in Assets}
    /\ \A d \in Requests(log, "deployments") :
          \E r \in Requests(log, "upsert-hashes") : r < d /\ log[r].status = "ok"

\* The hashes were registered after two buckets had been uploaded, among
\* them the hash of a file that was not uploaded.
C6_Witness ==
    /\ Requests(log, "upsert-hashes") # {}
    /\ Cardinality(NonEmptyBuckets(uploadBuckets)) >= 2
    /\ \E f \in Range(files) : f.hash \notin missingHashes

\* C7: control has left the upload stage only when no upload is still being
\* read or in flight.
C7_JoinOnAllBatches ==
    pc # "upload" => \A b \in DOMAIN tasks : tasks[b] \in {"ok", "failed"}

Oversized == \E k \in 1..Len(filesToUpload) : filesToUpload[k].size > MAX_BUCKET_BYTES

\* C8: when a file to upload is larger than the byte cap, packing ends in an
\* error: the run has failed and no upload, upsert-hashes or create-deployment
\* request is issued.
C8_OversizedIsFatal ==
    Oversized /\ pc # "pack" =>
        /\ pc = "failed"
        /\ NoRequestAfterStage(3)

RECURSIVE PackPrefix(_, _)
\* the buckets after the first n files of fs
PackPrefix(fs, n) ==
    IF n = 0 THEN InitialUploadBuckets
    ELSE Reducer(PackPrefix(fs, n - 1), fs[n], n - 1)

\* C9: after every packing step a file larger than the byte cap is the only
\* file of its bucket, every file handled so far is in a bucket, and the
\* buckets are determined by the list of files to upload.
C9_OversizedAlone ==
    pc \in {"pack", "upload"} =>
        /\ \A b \in 1..Len(uploadBuckets) :
              \A p \in 1..Len(uploadBuckets[b].files) :
                  uploadBuckets[b].files[p].size > MAX_BUCKET_BYTES
                      => Len(uploadBuckets[b].files) = 1
        /\ \A k \in 1..i :
              \E b \in 1..Len(uploadBuckets) :
                  filesToUpload[k] \in Range(uploadBuckets[b].files)
        /\ uploadBuckets = PackPrefix(filesToUpload, i)

\* Packing has ended with a file above the cap alone in a bucket and smaller
\* files in other buckets.
C9_Witness ==
    /\ pc = "upload"
    /\ \E b, c \in 1..Len(uploadBuckets) :
          /\ b # c
          /\ Len(uploadBuckets[b].files) = 1
          /\ uploadBuckets[b].size > MAX_BUCKET_BYTES
          /\ Len(uploadBuckets[c].files) >= 1
          /\ uploadBuckets[c].size <= MAX_BUCKET_BYTES

\* C10: in a run that follows a run that deployed, on the same directory,
\* check-missing returns no hash, no upload request is issued, and the
\* manifest of the create-deployment request is that of the run before.
C10_IdempotentRerun ==
    run > 1 =>
        /\ Requests(log, "upload") = {}
        /\ missingHashes = {}
        /\ filesToUpload = <<>>
        /\ \A d \in Requests(log, "deployments") :
              \E d0 \in Requests(prevLog, "deployments") :
                  /\ prevLog[d0].status = "ok"
                  /\ log[d].body.manifest = prevLog[d0].body.manifest

\* A second run has deployed a directory of which the first run had uploaded
\* files.
C10_Witness ==
    /\ run = 2
    /\ pc = "deployed"
    /\ files # <<>>
    /\ Requests(prevLog, "upload") # {}
    /\ \E k \in Requests(log, "check-missing") : log[k].body # <<>>

ReservedNames == {"_worker.js", "_redirects", "_headers", "_routes.json"}

ReservedFiles == {dir[k] : k \in {j \in 1..Len(dir) :
                                     dir[j].isFile /\ dir[j].name \in ReservedNames}}

OtherFiles == {dir[k] : k \in {j \in 1..Len(dir) :
                                  dir[j].isFile /\ dir[j].name \notin ReservedNames}}

\* the scan of this run has returned
Scanned ==
    \/ pc \notin {"project", "ghdeploy", "scan", "failed"}
    \/ pc = "failed" /\ Requests(log, "upload-token") # {}

ScannedPaths == {files[k].publicUrl : k \in 1..Len(files)}

BatchPaths ==
    UNION {{uploadBuckets[b].files[p].publicUrl : p \in 1..Len(uploadBuckets[b].files)} :
              b \in 1..Len(uploadBuckets)}

HashPayloads ==
    {log[k].body : k \in Requests(log, "check-missing") \cup Requests(log, "upsert-hashes")}

HashBytes == {Bytes1, Bytes1 \o <<134, 217, 165>>, Bytes2}

\* names with the extension extname() finds in them
HashNames == {<<"page.html", "html">>, <<"page", "">>, <<"page.js", "js">>}

HashEntries ==
    {Dirent(parent, ne[1], ne[2], TRUE, bytes) :
        parent \in {"", "/copy"}, ne \in HashNames, bytes \in HashBytes}

InitHash ==
    /\ \E e1, e2 \in HashEntries :
          /\ e1.parent # e2.parent \/ e1.name # e2.name
          /\ dir = <<Stat(e1, 1), Stat(e2, 1)>>
    /\ known = {}
    /\ run = 1
    /\ pc = "scan"
    /\ files = <<>>
    /\ missingHashes = {}
    /\ filesToUpload = <<>>
    /\ uploadBuckets = <<>>
    /\ i = 0
    /\ tasks = <<>>
    /\ log = << Request("project", "ok", 0, <<>>),
                Request("gh-deployment", "ok", 0, <<>>) >>
    /\ prevLog = <<>>
    /\ readFailed = {}
    /\ failed = 0
    /\ FirstPullRequestRun

NextHash == Scan

SpecHash == InitHash /\ [][NextHash]_vars

\* the entry of the directory a scanned file was made from
EntryOf(f) == CHOOSE e \in Range(dir) : e.isFile /\ PublicPath(e) = f.publicUrl

\* C12: two scanned files with the same bytes and the same extension have
\* the same hash whatever their paths, and two scanned files with the same
\* bytes and different extensions have different hashed strings and
\* different hashes.
C12_FingerprintOfBytesAndExtension ==
    \A f, g \in Range(files) :
        LET e == EntryOf(f)
            d == EntryOf(g)
        IN /\ (e.bytes = d.bytes /\ e.ext = d.ext) => f.hash = g.hash
           /\ (e.bytes = d.bytes /\ e.ext # d.ext) =>
                 /\ hashData(e.bytes, e.ext) # hashData(d.bytes, d.ext)
                 /\ f.hash # g.hash

\* The scan has returned two files of the same bytes and extension in
\* different directories.
C12_Witness ==
    /\ pc = "token"
    /\ \E f, g \in Range(files) :
          /\ f.publicUrl # g.publicUrl
          /\ EntryOf(f).bytes = EntryOf(g).bytes
          /\ EntryOf(f).ext = EntryOf(g).ext
          /\ f.hash = g.hash

\* C17: two scanned files that differ in their bytes or in their extension
\* have different hashed strings, so that two scanned files with the same
\* hash have the same bytes and the same extension.
C17_KeysIdentifyContent ==
    \A f, g \in Range(files) :
        LET e == EntryOf(f)
            d == EntryOf(g)
        IN /\ (e.bytes # d.bytes \/ e.ext # d.ext) =>
                 hashData(e.bytes, e.ext) # hashData(d.bytes, d.ext)
           /\ f.hash = g.hash => e.bytes = d.bytes /\ e.ext = d.ext

UploadsOf(b) == {u \in Requests(log, "upload") : log[u].bucket = b}

\* C13: an upload request is issued only for a bucket that holds a file, and
\* carries its files; no bucket has two requests; the uploads that are
\* started are those of the buckets that hold a file, and when all have
\* succeeded each of these buckets has exactly one request; when check-missing
\* has returned no hash, nothing is started or requested and upsert-hashes
\* can be issued at once.
C13_EmptyBucketsNotUploaded ==
    /\ \A u \in Requests(log, "upload") :
          /\ Len(uploadBuckets[log[u].bucket].files) > 0
          /\ Len(log[u].body) > 0
    /\ \A b \in 1..Len(uploadBuckets) : Cardinality(UploadsOf(b)) <= 1
    /\ Packed =>
          DOMAIN tasks = {b \in 1..Len(uploadBuckets) : Len(uploadBuckets[b].files) > 0}
    /\ UploadsDone =>
          \A b \in 1..Len(uploadBuckets) :
              Cardinality(UploadsOf(b)) = IF Len(uploadBuckets[b].files) > 0 THEN 1 ELSE 0
    /\ (Packed /\ missingHashes = {}) =>
          /\ DOMAIN tasks = {}
          /\ Requests(log, "upload") = {}
          /\ pc = "upload" => ENABLED UpsertHashes

\* A run has deployed scanned files of which the store knew every hash,
\* without an upload request.
C13_Witness ==
    /\ pc = "deployed"
    /\ run = 1
    /\ files # <<>>
    /\ missingHashes = {}
    /\ Requests(log, "upload") = {}
    /\ Requests(log, "upsert-hashes") # {}

\* a regular file of that name lies at the root of the directory
AtRoot(name) == \E e \in Range(dir) : e.isFile /\ e.parent = "" /\ e.name = name

CanAccept(bucket, file) ==
    /\ bucket.size + file.size <= MAX_BUCKET_BYTES
    /\ Len(bucket.files) + 1 <= MAX_BUCKET_ITEMS

\* the buckets after file number idx (from 0) is placed first-fit, the search
\* starting at bucket idx mod the number of buckets
FirstFit(buckets, file, idx) ==
    LET len == Len(buckets)
        fits == {j \in 0..(len - 1) : CanAccept(buckets[((idx + j) % len) + 1], file)}
        first == CHOOSE j \in fits : \A j2 \in fits : j <= j2
    IN IF fits = {}
       THEN buckets \o <<[files |-> <<file>>, size |-> file.size]>>
       ELSE [b \in 1..len |->
                IF b = ((idx + first) % len) + 1
                THEN [files |-> buckets[b].files \o <<file>>,
                      size |-> buckets[b].size + file.size]
                ELSE buckets[b]]

SortedBySizeDesc(fs) == \A a, b \in 1..Len(fs) : a < b => fs[a].size >= fs[b].size

\* C15: the files are packed in descending order of size, packing starts with
\* 3 buckets, and each packing step places the next file first-fit with
\* rotation: into the first bucket, from index i mod the number of buckets
\* on, that can take it within both caps, into a new bucket appended at the
\* end if and only if none can; no bucket is removed and no placed file moves.
C15_FirstFitWithRotation ==
    /\ [](pc = "pack" => SortedBySizeDesc(filesToUpload) /\ Len(uploadBuckets) >= InitialBuckets)
    /\ [](pc = "pack" /\ i = 0 => uploadBuckets = [b \in 1..InitialBuckets |-> [files |-> <<>>, size |-> 0]])
    /\ [][pc = "pack" /\ i < Len(filesToUpload) =>
            /\ uploadBuckets' = FirstFit(uploadBuckets, filesToUpload[i + 1], i)
            /\ Len(uploadBuckets') >= Len(uploadBuckets)
            /\ \A b \in 1..Len(uploadBuckets) :
                  SubSeq(uploadBuckets'[b].files, 1, Len(uploadBuckets[b].files))
                      = uploadBuckets[b].files]_vars

\* The reduce of upload.ts:93 is synchronous: once begun it runs to its end
\* and the promises of upload.ts:111 are made.
SpecPackFair == InitPack /\ [][NextPack]_vars /\ WF_vars(NextPack)

\* the places in the buckets that hold the file
PlacesOf(f) ==
    {bp \in (1..Len(uploadBuckets)) \X (1..Len(filesToUpload)) :
        /\ bp[2] <= Len(uploadBuckets[bp[1]].files)
        /\ uploadBuckets[bp[1]].files[bp[2]] = f}

\* C16: packing ends for every list of files, also with files above the byte
\* cap: every step handles the next file and appends at most one bucket, the
\* files handled so far are each in one place, the others in none, there are
\* at most 3 + i buckets after i files, and the uploads are started with
\* every file handled.
C16_PackingTerminates ==
    /\ [](/\ i <= Len(filesToUpload)
          /\ Len(uploadBuckets) <= InitialBuckets + i
          /\ \A k \in 1..Len(filesToUpload) :
                Cardinality(PlacesOf(filesToUpload[k])) = IF k <= i THEN 1 ELSE 0
          /\ pc = "upload" => i = Len(filesToUpload))
    /\ [][i' # i => /\ i' = i + 1
                    /\ Len(uploadBuckets') <= Len(uploadBuckets) + 1]_vars
    /\ <>(pc = "upload")

\* Packing has ended for a list with a file above the byte cap, with more
\* than 3 buckets.
C16_Witness ==
    /\ pc = "upload"
    /\ Oversized
    /\ i = Len(filesToUpload)
    /\ Len(uploadBuckets) > InitialBuckets

(***************************************************************************)
(* The runs of one workflow: for a directory of up to MaxGithubFiles       *)
(* files, every event the action reads, a token of the workflow (a bot) or *)
(* of a user, and a pull request that has no comment of the action yet.    *)
(***************************************************************************)
MaxGithubFiles == 1

Events == {"pull_request", "push", "release"}

UserTypes == {"Bot", "User"}

\* what others have written on the pull request: nothing, a user's comment
\* with the sign of the head ref, a bot's comment with the sign of another
\* ref, a bot's comment without a sign
InitialComments ==
    { <<>>,
      <<[body |-> Sign(Ref("pull_request")), user |-> "User"]>>,
      <<[body |-> Sign(Ref("release")), user |-> "Bot"]>>,
      <<[body |-> "", user |-> "Bot"]>> }

InitGithub ==
    /\ \E n \in 0..MaxGithubFiles :
         \E fsize \in [ContentsOf(n) -> RunSizes] :
            dir = Listing(n, <<>>, fsize)
    /\ known \in SUBSET Range(Hashes(findUploadableFiles(dir)))
    /\ run = 1
    /\ pc = "project"
    /\ prevLog = <<>>
    /\ NotStarted
    /\ eventName \in Events
    /\ tokenUser \in UserTypes
    /\ comments \in InitialComments
    /\ outputs = {}

SpecGithub == InitGithub /\ [][Next]_vars

\* a request of upload() or before it has failed, or a local read
FailedBeforeStatus ==
    \/ readFailed # {}
    \/ \E a \in 1..Len(log) : log[a].status = "failed" /\ StageOf(log[a].op) <= 6

\* C18: a deployment status is posted only with state success and only after
\* a create-deployment request that succeeded; outputs are set only after
\* the status was posted, and then all three; in a run in which the project
\* lookup, the creation of the GitHub deployment or a step of upload() has
\* failed no status is posted, no output is set and setFailed was called once.
C18_SuccessOnlyForDeployment ==
    /\ \A s \in Requests(log, "gh-status") :
          /\ log[s].body = "success"
          /\ \E d \in Requests(log, "deployments") : d < s /\ log[d].status = "ok"
    /\ outputs # {} =>
          /\ outputs = {"deploymentId", "deploymentUrl", "environment"}
          /\ \E s \in Requests(log, "gh-status") : log[s].status = "ok"
    /\ FailedBeforeStatus =>
          /\ Requests(log, "gh-status") = {}
          /\ outputs = {}
          /\ failed = 1

\* A run has ended with the deployment created, the status posted and the
\* outputs set.
C18_Witness ==
    /\ pc = "done"
    /\ failed = 0
    /\ outputs = {"deploymentId", "deploymentUrl", "environment"}
    /\ \E d \in Requests(log, "deployments") : log[d].status = "ok"
    /\ \E s \in Requests(log, "gh-status") : log[s].status = "ok"

\* a comment of a bot with the sign of the head ref f1 is among them
BotSignListed(listed) ==
    \E k \in 1..Len(listed) : listed[k].user = "Bot" /\ listed[k].body = "Sign: ZjE="

CommentRequests(requests) ==
    Requests(requests, "list-comments") \cup Requests(requests, "create-comment")

\* C19: a run for an event other than pull_request neither lists nor creates
\* comments; a comment is created only after a listing without a bot's
\* comment that carries the sign of the head ref; the first run for a pull
\* request that ends without failure has created the comment; with the
\* comment of a bot listed, later runs create none, and the pull request
\* never has two comments of a bot with the sign (the listing holds every
\* comment of the pull request).
C19_OnePreviewComment ==
    /\ eventName # "pull_request" =>
          CommentRequests(log) = {} /\ CommentRequests(prevLog) = {}
    /\ \A c \in Requests(log, "create-comment") :
          /\ log[c].body.body = "Sign: ZjE="
          /\ \E l \in Requests(log, "list-comments") :
                l < c /\ log[l].status = "ok" /\ ~BotSignListed(log[l].body)
    /\ (eventName = "pull_request" /\ run = 1 /\ pc = "done") =>
          /\ \E c \in Requests(log, "create-comment") : log[c].status = "ok"
          /\ comments[Len(comments)] = [body |-> "Sign: ZjE=", user |-> tokenUser]
    /\ (run > 1 /\ BotSignListed(comments)) => Requests(log, "create-comment") = {}
    /\ Cardinality({k \in 1..Len(comments) :
                       comments[k].user = "Bot" /\ comments[k].body = "Sign: ZjE="}) <= 1

\* A second run for the pull request has ended: it has listed the comments,
\* among them the comment the first run created, and created none.
C19_Witness ==
    /\ run = 2
    /\ pc = "done"
    /\ eventName = "pull_request"
    /\ tokenUser = "Bot"
    /\ \E c \in Requests(prevLog, "create-comment") : prevLog[c].status = "ok"
    /\ \E l \in Requests(log, "list-comments") : BotSignListed(log[l].body)
    /\ Requests(log, "create-comment") = {}

====
